---- MODULE Spec2Model ----
(***************************************************************************)
(* MultiText AI (src/app.py): one Streamlit script.  Every user            *)
(* interaction reruns the script top to bottom: load_pipelines() (memoized *)
(* by st.cache_resource), the widgets, then the Analyze handler            *)
(* detect -> (translate)? -> classify -> reshape -> render.                *)
(*                                                                         *)
(* Texts are sequences of one-character strings.  A probability p is the   *)
(* numerator n of p = n / ProbDen; a confidence is a whole number of       *)
(* hundredths of a percent point (1234 stands for 12.34).                  *)
(***************************************************************************)
EXTENDS Integers, Sequences, FiniteSets

VARIABLES
    cache,          \* st.cache_resource entry of load_pipelines: "empty" | "loaded"
    bodyRan,        \* whether this run's load_pipelines() call executed the body
    constructed,    \* per classifier, how many times pipeline(...) built it
    pc,             \* position of the script run
    pressed,        \* st.button("Analyze") of the current run
    text,           \* st.text_area value of the current run
    task,           \* st.selectbox value of the current run
    detected_lang,  \* line 47
    translated,     \* line 54
    text_to_use,    \* lines 56 / 61
    detectCalls,    \* arguments of the detect(...) calls of this run
    translateCalls, \* arguments of the translate(...) calls of this run
    classifierCalls,\* <<classifier, argument>> of the classifier calls of this run
    emitted,        \* the value the classifier call returned
    results,        \* the local list `results` (lines 67 / 76 / 85, updated in place at 87-88)
    table,          \* rows handed to st.dataframe
    chart,          \* slices handed to px.pie by plot_pie_chart
    messages,       \* st.error / st.markdown / st.info / st.subheader elements shown
    raised          \* the exception raised in this run: <<>> or <<stage, cause>>

vars == <<cache, bodyRan, constructed, pc, pressed, text, task, detected_lang, translated,
          text_to_use, detectCalls, translateCalls, classifierCalls, emitted, results,
          table, chart, messages, raised>>

----------------------------------------------------------------------------
(* Bounds and input samples *)

MaxResults == 2
MaxConstructions == 2
ProbDen == 64

Whitespace == {" ", "\t"}

Texts == { <<>>, <<" ", "\t">>, <<"a">>, <<" ", "a", " ">> }

TranslatorOutputs == { <<"a">>, <<"b">> }

Languages == {"en", "es"}

Causes == {"e1", "e2"}

ProbNums == {0, 3, ProbDen}

Unset == <<"unset">>

----------------------------------------------------------------------------
(* Program constants *)

Tasks == {"Sentiment Analysis", "Toxic Comment Detection", "News Category Classification"}

Classifiers == <<"sentiment_pipe", "toxic_pipe", "category_pipe">>

ClassifierSet == {Classifiers[i] : i \in DOMAIN Classifiers}

Pivot == "en"

NEWS_LABEL_MAP ==
    [l \in {"LABEL_0", "LABEL_1", "LABEL_2", "LABEL_3"} |->
        CASE l = "LABEL_0" -> "World"
          [] l = "LABEL_1" -> "Sports"
          [] l = "LABEL_2" -> "Business"
          [] l = "LABEL_3" -> "Sci/Tech"]

\* Label vocabulary of each pre-trained model (LABEL_9 stands for a code the
\* map does not know).
RawLabels(c) ==
    CASE c = "sentiment_pipe" -> {"NEGATIVE", "POSITIVE"}
      [] c = "toxic_pipe"     -> {"toxic", "insult"}
      [] c = "category_pipe"  -> {"LABEL_0", "LABEL_1", "LABEL_2", "LABEL_3", "LABEL_9"}

Entries(c) == [label : RawLabels(c), score : ProbNums]

SeqsUpTo(S, n) == UNION {[1..k -> S] : k \in 1..n}

\* return_all_scores=True: one entry per label, each label at most once
ClassifierOutputs(c) ==
    {s \in SeqsUpTo(Entries(c), MaxResults) :
        \A i, j \in DOMAIN s : i /= j => s[i].label /= s[j].label}

----------------------------------------------------------------------------
(* Pure helpers *)

RECURSIVE LStrip(_)
LStrip(t) ==
    IF t = <<>> THEN <<>>
    ELSE IF Head(t) \in Whitespace THEN LStrip(Tail(t)) ELSE t

RECURSIVE RStrip(_)
RStrip(t) ==
    IF t = <<>> THEN <<>>
    ELSE IF t[Len(t)] \in Whitespace THEN RStrip(SubSeq(t, 1, Len(t) - 1)) ELSE t

Strip(t) == RStrip(LStrip(t))

AnalyzeGuardPressedOnly(p, t) == p

\* line 44: st.button(...) and text.strip()
AnalyzeGuard(p, t) == p /\ Strip(t) /= <<>>

\* line 52
NeedsTranslation(lang) == lang /= Pivot

TextAfterTranslationOriginal(orig, tr) == orig

\* line 56
TextAfterTranslation(orig, tr) == tr

ClassifierForFirst(t) == "sentiment_pipe"

\* lines 66, 75, 84
ClassifierFor(t) ==
    CASE t = "Sentiment Analysis"           -> "sentiment_pipe"
      [] t = "Toxic Comment Detection"      -> "toxic_pipe"
      [] t = "News Category Classification" -> "category_pipe"

RemapShifted(l) ==
    IF l = "LABEL_2" THEN "Sci/Tech"
    ELSE IF l \in DOMAIN NEWS_LABEL_MAP THEN NEWS_LABEL_MAP[l] ELSE l

\* line 87: NEWS_LABEL_MAP.get(label, label)
Remap(l) == IF l \in DOMAIN NEWS_LABEL_MAP THEN NEWS_LABEL_MAP[l] ELSE l

\* a / b rounded to the nearest integer, ties to the even one
RoundHalfEven(a, b) ==
    LET q == a \div b
        r == a % b
    IN  IF 2 * r < b THEN q
        ELSE IF 2 * r > b THEN q + 1
        ELSE IF q % 2 = 0 THEN q ELSE q + 1

Percent == 100
Decimals == 2

NumpyRound2Truncating(n) == (n * Percent * 10 ^ Decimals) \div ProbDen

\* lines 69, 78: (df['score'] * 100).round(2)
NumpyRound2(n) == RoundHalfEven(n * Percent * 10 ^ Decimals, ProbDen)

\* line 88: round(r['score'] * 100, 2)
PyRound2(n) == RoundHalfEven(n * Percent * 10 ^ Decimals, ProbDen)

DataFrameThresholded(rs) == SelectSeq(rs, LAMBDA r : r.score > 0)

\* lines 68, 77, 89: pd.DataFrame(results), one row per entry in list order
DataFrame(rs) == rs

\* lines 67-70 / 76-79
ScoreFrame(rs) ==
    LET df == DataFrame(rs)
    IN  [i \in DOMAIN df |-> [label |-> df[i].label, score |-> NumpyRound2(df[i].score)]]

\* lines 86-88: the loop rewrites each entry of results in place
NewsUpdated(rs) ==
    [i \in DOMAIN rs |-> [label |-> Remap(rs[i].label), score |-> PyRound2(rs[i].score)]]

\* lines 85-90
NewsFrame(rs) == DataFrame(NewsUpdated(rs))

\* lines 25-28: one slice per row of df
plot_pie_chart(df) == [i \in DOMAIN df |-> [name |-> df[i].label, value |-> df[i].score]]

Subheader(t) ==
    CASE t = "Sentiment Analysis"           -> "Sentiment Results"
      [] t = "Toxic Comment Detection"      -> "Toxicity Results"
      [] t = "News Category Classification" -> "News Category Results"

Msg(k, w, a) == [kind |-> k, what |-> w, arg |-> a]

CacheMissAlways(c) == TRUE

\* line 17: st.cache_resource runs the body only when nothing is memoized
CacheMiss(c) == c = "empty"

\* lines 19-21: the three pipeline(...) constructions, in order
ConstructedUpTo(cons, k) ==
    [c \in ClassifierSet |->
        IF \E i \in 1..k : Classifiers[i] = c THEN cons[c] + 1 ELSE cons[c]]

\* lines 31-32 with a load that returns
CacheAfterLoad(c) == "loaded"
ConstructedAfterLoad(c, cons) ==
    IF CacheMiss(c) THEN ConstructedUpTo(cons, Len(Classifiers)) ELSE cons

StopPcContinue == "Classifying"

\* lines 50, 59: st.stop() ends the script run
StopPc == "Failed"

DetectErrorWithoutCause(cause) == Msg("error", "Error detecting language", <<>>)

\* line 49
DetectError(cause) == Msg("error", "Error detecting language", cause)

\* line 58
TranslateError(cause) == Msg("error", "Translation failed", cause)

Finished == {"Idle", "Failed", "Uncaught"}

----------------------------------------------------------------------------
(* State machine *)

Init ==
    /\ cache = "empty"
    /\ bodyRan = FALSE
    /\ constructed = [c \in ClassifierSet |-> 0]
    /\ pc = "Idle"
    /\ pressed = FALSE
    /\ text = <<>>
    /\ task = "Sentiment Analysis"
    /\ detected_lang = "unset"
    /\ translated = Unset
    /\ text_to_use = Unset
    /\ detectCalls = <<>>
    /\ translateCalls = <<>>
    /\ classifierCalls = <<>>
    /\ emitted = <<>>
    /\ results = <<>>
    /\ table = <<>>
    /\ chart = <<>>
    /\ messages = <<>>
    /\ raised = <<>>

\* A rerun starts from an empty page and fresh locals.
FreshRun(p, t, k) ==
    /\ pressed' = p
    /\ text' = t
    /\ task' = k
    /\ detected_lang' = "unset"
    /\ translated' = Unset
    /\ text_to_use' = Unset
    /\ detectCalls' = <<>>
    /\ translateCalls' = <<>>
    /\ classifierCalls' = <<>>
    /\ emitted' = <<>>
    /\ results' = <<>>
    /\ table' = <<>>
    /\ chart' = <<>>

\* lines 31-32: load_pipelines() raises at its k-th pipeline(...) call; the
\* exception leaves the script and nothing is memoized.
RunLoadFails(p, t, k, stage, cause) ==
    /\ pc \in Finished
    /\ CacheMiss(cache)
    /\ \A c \in ClassifierSet : ConstructedUpTo(constructed, stage - 1)[c] < MaxConstructions
    /\ FreshRun(p, t, k)
    /\ constructed' = ConstructedUpTo(constructed, stage - 1)
    /\ cache' = cache
    /\ bodyRan' = TRUE
    /\ messages' = <<>>
    /\ raised' = <<"load", cause>>
    /\ pc' = "Uncaught"

\* lines 31-44: load_pipelines() returns, the guard of line 44 holds
RunAnalyze(p, t, k) ==
    /\ pc \in Finished
    /\ AnalyzeGuard(p, t)
    /\ FreshRun(p, t, k)
    /\ constructed' = ConstructedAfterLoad(cache, constructed)
    /\ cache' = CacheAfterLoad(cache)
    /\ bodyRan' = CacheMiss(cache)
    /\ messages' = <<>>
    /\ raised' = <<>>
    /\ pc' = "Detecting"

\* lines 31-44, 94-95: load_pipelines() returns, the guard fails
RunInfo(p, t, k) ==
    /\ pc \in Finished
    /\ ~AnalyzeGuard(p, t)
    /\ FreshRun(p, t, k)
    /\ constructed' = ConstructedAfterLoad(cache, constructed)
    /\ cache' = CacheAfterLoad(cache)
    /\ bodyRan' = CacheMiss(cache)
    /\ messages' = <<Msg("info", "Enter your text and click Analyze", <<>>)>>
    /\ raised' = <<>>
    /\ pc' = "Idle"

\* lines 47, 52, 60-62
DetectOk(lang) ==
    /\ pc = "Detecting"
    /\ detectCalls' = Append(detectCalls, text)
    /\ detected_lang' = lang
    /\ IF NeedsTranslation(lang)
       THEN /\ pc' = "Translating"
            /\ UNCHANGED <<text_to_use, messages>>
       ELSE /\ text_to_use' = text
            /\ messages' = Append(messages, Msg("markdown", "Input is in English", <<>>))
            /\ pc' = "Classifying"
    /\ UNCHANGED <<cache, bodyRan, constructed, pressed, text, task, translated, translateCalls,
                   classifierCalls, emitted, results, table, chart, raised>>

\* lines 47-50
DetectFails(cause) ==
    /\ pc = "Detecting"
    /\ detectCalls' = Append(detectCalls, text)
    /\ raised' = <<"detect", cause>>
    /\ messages' = Append(messages, DetectError(cause))
    /\ pc' = StopPc
    /\ UNCHANGED <<cache, bodyRan, constructed, pressed, text, task, detected_lang, translated,
                   text_to_use, translateCalls, classifierCalls, emitted, results, table, chart>>

\* lines 54-56
TranslateOk(out) ==
    /\ pc = "Translating"
    /\ translateCalls' = Append(translateCalls, text)
    /\ translated' = out
    /\ messages' = Append(messages, Msg("markdown", "Translated to English", out))
    /\ text_to_use' = TextAfterTranslation(text, out)
    /\ pc' = "Classifying"
    /\ UNCHANGED <<cache, bodyRan, constructed, pressed, text, task, detected_lang, detectCalls,
                   classifierCalls, emitted, results, table, chart, raised>>

\* lines 54, 57-59
TranslateFails(cause) ==
    /\ pc = "Translating"
    /\ translateCalls' = Append(translateCalls, text)
    /\ raised' = <<"translate", cause>>
    /\ messages' = Append(messages, TranslateError(cause))
    /\ pc' = StopPc
    /\ UNCHANGED <<cache, bodyRan, constructed, pressed, text, task, detected_lang, translated,
                   text_to_use, detectCalls, classifierCalls, emitted, results, table, chart>>

\* lines 67, 76, 85: the selected classifier returns
ClassifyOk(out) ==
    /\ pc = "Classifying"
    /\ classifierCalls' = Append(classifierCalls, <<ClassifierFor(task), text_to_use>>)
    /\ emitted' = out
    /\ results' = out
    /\ pc' = "Rendering"
    /\ UNCHANGED <<cache, bodyRan, constructed, pressed, text, task, detected_lang, translated,
                   text_to_use, detectCalls, translateCalls, table, chart, messages, raised>>

\* lines 67, 76, 85: the selected classifier raises; no handler encloses the
\* call, so the exception leaves the script.
ClassifyRaises(cause) ==
    /\ pc = "Classifying"
    /\ classifierCalls' = Append(classifierCalls, <<ClassifierFor(task), text_to_use>>)
    /\ raised' = <<"classify", cause>>
    /\ pc' = "Uncaught"
    /\ UNCHANGED <<cache, bodyRan, constructed, pressed, text, task, detected_lang, translated,
                   text_to_use, detectCalls, translateCalls, emitted, results, table, chart,
                   messages>>

\* lines 68-73, 77-82, 86-93
Render ==
    /\ pc = "Rendering"
    /\ LET df == IF task = "News Category Classification"
                 THEN NewsFrame(results) ELSE ScoreFrame(results)
       IN  /\ table' = df
           /\ chart' = plot_pie_chart(df)
    /\ results' = IF task = "News Category Classification"
                  THEN NewsUpdated(results) ELSE results
    /\ messages' = Append(messages, Msg("subheader", Subheader(task), <<>>))
    /\ pc' = "Idle"
    /\ UNCHANGED <<cache, bodyRan, constructed, pressed, text, task, detected_lang, translated,
                   text_to_use, detectCalls, translateCalls, classifierCalls, emitted, raised>>

Next ==
    \/ \E p \in BOOLEAN, t \in Texts, k \in Tasks, s \in DOMAIN Classifiers, e \in Causes :
            RunLoadFails(p, t, k, s, e)
    \/ \E p \in BOOLEAN, t \in Texts, k \in Tasks : RunAnalyze(p, t, k)
    \/ \E p \in BOOLEAN, t \in Texts, k \in Tasks : RunInfo(p, t, k)
    \/ \E lang \in Languages : DetectOk(lang)
    \/ \E e \in Causes : DetectFails(e)
    \/ \E out \in TranslatorOutputs : TranslateOk(out)
    \/ \E e \in Causes : TranslateFails(e)
    \/ pc = "Classifying" /\ \E out \in ClassifierOutputs(ClassifierFor(task)) : ClassifyOk(out)
    \/ \E e \in Causes : ClassifyRaises(e)
    \/ Render

Spec == Init /\ [][Next]_vars

----------------------------------------------------------------------------
(* Properties *)

Stages == {"Detecting", "Translating", "Classifying", "Rendering"}

IsBlank(t) == \A i \in DOMAIN t : t[i] \in {" ", "\t"}

Shown(k, w) == \E i \in DOMAIN messages : messages[i].kind = k /\ messages[i].what = w

ShownWith(k, w, a) ==
    \E i \in DOMAIN messages :
        messages[i].kind = k /\ messages[i].what = w /\ messages[i].arg = a

RaisedAt(stage) == raised /= <<>> /\ raised[1] = stage

Rendered == Shown("subheader", "Sentiment Results") \/ Shown("subheader", "Toxicity Results")
            \/ Shown("subheader", "News Category Results")

\* |c / 100 - 100 * n / ProbDen| <= 0.005, in whole numbers
Nearest(c, n) ==
    LET d == c * ProbDen - n * 10000
    IN  2 * d <= ProbDen /\ -2 * d <= ProbDen

\* C1: once detection succeeded, the text a classifier receives is decided by
\* the detected language: for 'en' the translator is not called and the
\* classifier gets the user's text (no translation shown); for any other
\* language the translator is called once and the classifier gets what the
\* translator returned (translation shown).
C1_ClassifierInputByLanguage ==
    \A i \in DOMAIN classifierCalls :
        /\ detected_lang \in Languages
        /\ detected_lang = "en" =>
              /\ translateCalls = <<>>
              /\ classifierCalls[i][2] = text
              /\ Shown("markdown", "Input is in English")
              /\ ~Shown("markdown", "Translated to English")
        /\ detected_lang /= "en" =>
              /\ translateCalls = <<text>>
              /\ translated \in TranslatorOutputs
              /\ classifierCalls[i][2] = translated
              /\ ShownWith("markdown", "Translated to English", translated)
              /\ ~Shown("markdown", "Input is in English")

C1_Witness ==
    /\ classifierCalls /= <<>>
    /\ detected_lang = "es"
    /\ text = <<"a">>
    /\ classifierCalls[1][2] = <<"b">>

\* C2: after the translation call failed, the run is in Failed with a
\* translation-failure message; no classifier was called and neither table
\* nor chart is shown.
C2_TranslationFailureHalts ==
    RaisedAt("translate") =>
        /\ pc = "Failed"
        /\ ShownWith("error", "Translation failed", raised[2])
        /\ classifierCalls = <<>>
        /\ emitted = <<>>
        /\ table = <<>>
        /\ chart = <<>>
        /\ ~Rendered

C2_Witness == RaisedAt("translate") /\ pc = "Failed" /\ translateCalls = <<text>>

\* C3: after language detection failed, the run is in Failed with an error
\* message that carries the cause; detection was called once, and neither
\* translation nor classification nor rendering took place.
C3_DetectionFailureTerminal ==
    RaisedAt("detect") =>
        /\ pc = "Failed"
        /\ ShownWith("error", "Error detecting language", raised[2])
        /\ detectCalls = <<text>>
        /\ translateCalls = <<>>
        /\ classifierCalls = <<>>
        /\ table = <<>>
        /\ chart = <<>>
        /\ ~Rendered

C3_Witness == RaisedAt("detect") /\ pc = "Failed" /\ raised[2] = "e2"

\* C4: after the selected classifier raised, the run is in Failed and an
\* error message is shown to the user, with nothing rendered.
C4_ClassifierErrorSurfaced ==
    RaisedAt("classify") =>
        /\ pc = "Failed"
        /\ \E i \in DOMAIN messages : messages[i].kind = "error"
        /\ table = <<>>
        /\ chart = <<>>

Rank(p) ==
    CASE p = "Detecting"   -> 1
      [] p = "Translating" -> 2
      [] p = "Classifying" -> 3
      [] p = "Rendering"   -> 4

C5_Step ==
    /\ pc \in Stages => pc' /= pc
    /\ (pc \in Stages /\ pc' \in Stages) => Rank(pc') > Rank(pc)
    /\ pc' = "Detecting" => (pc \in {"Idle", "Failed", "Uncaught"} /\ detectCalls' = <<>>)
    /\ pc' = "Translating" =>
          (pc = "Detecting" /\ detectCalls' = <<text>> /\ detected_lang' \notin {"unset", "en"})
    /\ pc' = "Classifying" =>
          (pc \in {"Detecting", "Translating"} /\ text_to_use' /= Unset /\ classifierCalls' = <<>>)
    /\ pc' = "Rendering" => (pc = "Classifying" /\ emitted' /= <<>> /\ table' = <<>>)
    /\ pc = "Rendering" => (pc' = "Idle" /\ Len(table') = Len(emitted))
    /\ Len(detectCalls') <= 1
    /\ Len(translateCalls') <= 1
    /\ Len(classifierCalls') <= 1
    /\ translateCalls' /= <<>> => detectCalls' /= <<>>
    /\ classifierCalls' /= <<>> =>
          /\ detectCalls' /= <<>>
          /\ task' = "Sentiment Analysis" => classifierCalls'[1][1] = "sentiment_pipe"
          /\ task' = "Toxic Comment Detection" => classifierCalls'[1][1] = "toxic_pipe"
          /\ task' = "News Category Classification" => classifierCalls'[1][1] = "category_pipe"
    /\ (table' /= <<>> \/ chart' /= <<>>) => emitted' /= <<>>

\* C5: a request is the linear pipeline Idle -> Detecting -> (Translating)?
\* -> Classifying -> Rendering -> Idle: no step goes back to an earlier
\* stage or stays in one; detection, translation and classification each run
\* at most once per request; translation only after the detection of a
\* non-pivot language; the one classifier that runs is the selected task's,
\* after normalization; rendering only after the classifier returned.
C5_LinearPipeline == [][C5_Step]_vars

C5_Witness ==
    /\ pc = "Idle"
    /\ Rendered
    /\ detectCalls /= <<>>
    /\ translateCalls /= <<>>
    /\ classifierCalls /= <<>>
    /\ classifierCalls[1][1] = "toxic_pipe"

\* C6: for the news task the label shown for LABEL_0..LABEL_3 is World,
\* Sports, Business, Sci/Tech, any other raw label is shown as it is, and
\* remapping a shown label changes nothing.
C6_NewsLabels ==
    (task = "News Category Classification" /\ Rendered) =>
        \A i \in DOMAIN emitted :
            /\ i \in DOMAIN table
            /\ LET raw == emitted[i].label
                   shown == table[i].label
               IN  /\ raw = "LABEL_0" => shown = "World"
                   /\ raw = "LABEL_1" => shown = "Sports"
                   /\ raw = "LABEL_2" => shown = "Business"
                   /\ raw = "LABEL_3" => shown = "Sci/Tech"
                   /\ raw \notin {"LABEL_0", "LABEL_1", "LABEL_2", "LABEL_3"} => shown = raw
                   /\ Remap(shown) = shown

C6_Witness ==
    /\ task = "News Category Classification"
    /\ Len(table) = 2
    /\ emitted[1].label = "LABEL_2" /\ table[1].label = "Business"
    /\ emitted[2].label = "LABEL_9" /\ table[2].label = "LABEL_9"

\* C7: for every task, each confidence shown is the emitted probability
\* times 100 rounded to 2 decimals (within half a hundredth of the exact
\* value) and lies in [0, 100].
C7_ConfidenceRounded ==
    Rendered =>
        \A i \in DOMAIN emitted :
            /\ i \in DOMAIN table
            /\ table[i].score \in 0..10000
            /\ Nearest(table[i].score, emitted[i].score)
            /\ chart[i].value = table[i].score

C7_Witness ==
    /\ Rendered
    /\ task = "News Category Classification"
    /\ \E i \in DOMAIN table : table[i].score * ProbDen /= emitted[i].score * 10000

\* C8: the table and the chart have one entry per emitted (label,
\* probability) pair, in the emitted order; nothing is sorted, merged or
\* dropped, and the chart shows the rows of the table.
C8_OneRowPerEntryInOrder ==
    Rendered =>
        /\ Len(table) = Len(emitted)
        /\ Len(chart) = Len(emitted)
        /\ \A i \in DOMAIN emitted :
            /\ task /= "News Category Classification" => table[i].label = emitted[i].label
            /\ task = "News Category Classification" =>
                  (table[i].label = emitted[i].label
                      <=> emitted[i].label \notin {"LABEL_0", "LABEL_1", "LABEL_2", "LABEL_3"})
            /\ Nearest(table[i].score, emitted[i].score)
            /\ chart[i].name = table[i].label
            /\ chart[i].value = table[i].score

C8_Witness ==
    /\ Rendered
    /\ Len(table) = 2
    /\ emitted[1].score = 0
    /\ emitted[2].score = ProbDen
    /\ table[1].score = 0
    /\ chart[2].value = 10000

C9_Step ==
    /\ cache = "loaded" => (cache' = "loaded" /\ constructed' = constructed)
    /\ (cache = "loaded" /\ pc' /= pc /\ pc \in {"Idle", "Failed", "Uncaught"}) => ~bodyRan'
    /\ (cache = "empty" /\ cache' = "loaded") =>
          (bodyRan' /\ \A c \in ClassifierSet : constructed'[c] = constructed[c] + 1)

C10_BlankNeverAnalyzed ==
    /\ (~pressed \/ IsBlank(text)) =>
          /\ pc \notin Stages
          /\ detectCalls = <<>>
          /\ translateCalls = <<>>
          /\ classifierCalls = <<>>
          /\ table = <<>>
          /\ chart = <<>>
          /\ (pc = "Idle" /\ cache = "loaded") =>
                messages = <<Msg("info", "Enter your text and click Analyze", <<>>)>>
    /\ \A i \in DOMAIN detectCalls : ~IsBlank(detectCalls[i])
    /\ classifierCalls /= <<>> => (pressed /\ ~IsBlank(text))

C10_Witness ==
    /\ pressed
    /\ text = <<" ", "\t">>
    /\ cache = "loaded"
    /\ pc = "Idle"
    /\ messages = <<Msg("info", "Enter your text and click Analyze", <<>>)>>

====
